---- MODULE Spec2Model ----
(***************************************************************************)
(* A model of data/download_discharge_data_cli.py: a command line script   *)
(* that downloads one year of EFAS river discharge data through the        *)
(* cdsapi client unless the destination file is already on disk.           *)
(*                                                                         *)
(* Python strings that the program computes with (the argument, str(y),    *)
(* the f-string file names, the printed line) are sequences of one-        *)
(* character strings, so that int(), str() and the f-strings are computed  *)
(* and not assumed.  Several operating system processes run the script     *)
(* against one working directory.                                          *)
(***************************************************************************)
EXTENDS Integers, Sequences, FiniteSets, TLC

(***************************************************************************)
(* Bounds of the model.                                                    *)
(***************************************************************************)
\* total number of runs of the script that are started
MaxRuns == 2

\* the process slots: up to two runs of the script are under way at a time
Procs == {1, 2}

(***************************************************************************)
(* Strings.                                                                *)
(***************************************************************************)
Digits == <<"0", "1", "2", "3", "4", "5", "6", "7", "8", "9">>

DigitChars == {Digits[i] : i \in 1..10}

Whitespace == {" ", "\t", "\n", "\r", "\f"}

DigitVal(c) == (CHOOSE i \in 1..10 : Digits[i] = c) - 1

RECURSIVE LStrip(_)
LStrip(s) == IF s # <<>> /\ Head(s) \in Whitespace THEN LStrip(Tail(s)) ELSE s

RECURSIVE RStrip(_)
RStrip(s) ==
    IF s # <<>> /\ s[Len(s)] \in Whitespace
    THEN RStrip(SubSeq(s, 1, Len(s) - 1))
    ELSE s

\* str.strip()
Strip(s) == RStrip(LStrip(s))

\* the digits of a literal with its underscores dropped, as a number
RECURSIVE DigitsValue(_, _)
DigitsValue(s, acc) ==
    IF s = <<>> THEN acc
    ELSE IF Head(s) = "_" THEN DigitsValue(Tail(s), acc)
    ELSE DigitsValue(Tail(s), 10 * acc + DigitVal(Head(s)))

\* a base 10 literal body: digits, single underscores only between digits
ValidBody(s) ==
    /\ s # <<>>
    /\ \A i \in 1..Len(s) : s[i] \in DigitChars \cup {"_"}
    /\ s[1] # "_"
    /\ s[Len(s)] # "_"
    /\ \A i \in 1..(Len(s) - 1) : ~(s[i] = "_" /\ s[i + 1] = "_")

\* a parse that reads what it cannot parse as 0 instead of raising
ParseIntLenient(s) ==
    LET t == Strip(s)
        signed == t # <<>> /\ t[1] \in {"+", "-"}
        body == IF signed THEN Tail(t) ELSE t
    IN  [ok |-> TRUE,
         val |-> IF ~ValidBody(body) THEN 0
                 ELSE IF signed /\ t[1] = "-" THEN 0 - DigitsValue(body, 0)
                 ELSE DigitsValue(body, 0)]

\* Python's int(str): surrounding whitespace is stripped, one optional sign,
\* then the literal body; anything else raises ValueError (ok = FALSE)
ParseInt(s) ==
    LET t == Strip(s)
        signed == t # <<>> /\ t[1] \in {"+", "-"}
        body == IF signed THEN Tail(t) ELSE t
    IN  IF ValidBody(body)
        THEN [ok |-> TRUE,
              val |-> IF signed /\ t[1] = "-"
                      THEN 0 - DigitsValue(body, 0)
                      ELSE DigitsValue(body, 0)]
        ELSE [ok |-> FALSE, val |-> 0]

RECURSIVE StrNat(_)
StrNat(n) ==
    IF n < 10 THEN <<Digits[n + 1]>>
    ELSE StrNat(n \div 10) \o <<Digits[(n % 10) + 1]>>

\* Python's str(int)
Str(n) == IF n < 0 THEN <<"-">> \o StrNat(0 - n) ELSE StrNat(n)

(***************************************************************************)
(* retrievefull and retrieve: the file name, the dataset and the request.  *)
(***************************************************************************)
\* another product of the same archive
DatasetForecast == "efas-forecast"

Dataset == "efas-historical"

\* a two character label such as '01', and a time label such as '06:00'
L(a, b) == <<a, b>>

T(a, b, c, d) == <<a, b, ":", c, d>>

AllMonths ==
    << L("0", "1"), L("0", "2"), L("0", "3"),
       L("0", "4"), L("0", "5"), L("0", "6"),
       L("0", "7"), L("0", "8"), L("0", "9"),
       L("1", "0"), L("1", "1"), L("1", "2") >>

AllDays ==
    << L("0", "1"), L("0", "2"), L("0", "3"),
       L("0", "4"), L("0", "5"), L("0", "6"),
       L("0", "7"), L("0", "8"), L("0", "9"),
       L("1", "0"), L("1", "1"), L("1", "2"),
       L("1", "3"), L("1", "4"), L("1", "5"),
       L("1", "6"), L("1", "7"), L("1", "8"),
       L("1", "9"), L("2", "0"), L("2", "1"),
       L("2", "2"), L("2", "3"), L("2", "4"),
       L("2", "5"), L("2", "6"), L("2", "7"),
       L("2", "8"), L("2", "9"), L("3", "0"),
       L("3", "1") >>

AllTimes ==
    << T("0", "0", "0", "0"), T("0", "6", "0", "0"), T("1", "2", "0", "0"),
       T("1", "8", "0", "0") >>

Area == <<54, 14, 49, 20>>

FilePrefix == <<"d", "i", "s", "c", "h", "a", "r", "g", "e", "_">>

FullSuffix == <<"_", "f", "u", "l", "l", ".", "n", "c", ".", "z", "i", "p">>

CroppedSuffix == <<".", "n", "c", ".", "z", "i", "p">>

\* f'discharge_{y}.nc.zip'
CroppedFilename(y) == FilePrefix \o Str(y) \o CroppedSuffix

\* the full path writing to the cropped path's name
FullFilenameAsCropped(y) == CroppedFilename(y)

\* f'discharge_{y}_full.nc.zip'
FullFilename(y) == FilePrefix \o Str(y) \o FullSuffix

\* the request with day 31 left out
FullRequestThirtyDays(y) ==
    [system_version |-> "version_4_0",
     variable |-> "river_discharge_in_the_last_6_hours",
     model_levels |-> "surface_level",
     hyear |-> Str(y),
     hmonth |-> AllMonths,
     hday |-> SubSeq(AllDays, 1, 30),
     time |-> AllTimes,
     format |-> "netcdf"]

FullRequest(y) ==
    [system_version |-> "version_4_0",
     variable |-> "river_discharge_in_the_last_6_hours",
     model_levels |-> "surface_level",
     hyear |-> Str(y),
     hmonth |-> AllMonths,
     hday |-> AllDays,
     time |-> AllTimes,
     format |-> "netcdf"]

CroppedRequest(y) ==
    [format |-> "netcdf",
     system_version |-> "version_4_0",
     variable |-> "river_discharge_in_the_last_6_hours",
     model_levels |-> "surface_level",
     hyear |-> Str(y),
     hmonth |-> AllMonths,
     hday |-> AllDays,
     time |-> AllTimes,
     area |-> Area]

\* the test the wrong way round
existsInverted(filename, fs) == filename \notin DOMAIN fs

\* a test that only accepts a file that is whole
existsComplete(filename, fs) ==
    filename \in DOMAIN fs /\ fs[filename].content = "complete"

\* os.path.exists(filename) in the working directory fs: any file of that
\* name counts, whatever is in it
exists(filename, fs) == filename \in DOMAIN fs

\* what a call of retrievefull(y) is to do: the function entered, the file
\* it tests, and the arguments it hands to c.retrieve when the test fails
retrievefull(y) ==
    [fn |-> "retrievefull",
     filename |-> FullFilename(y),
     dataset |-> Dataset,
     request |-> FullRequest(y),
     target |-> FullFilename(y)]

retrieve(y) ==
    [fn |-> "retrieve",
     filename |-> CroppedFilename(y),
     dataset |-> Dataset,
     request |-> CroppedRequest(y),
     target |-> CroppedFilename(y)]

\* main with the cropped path switched back on instead
MainRetrievalCropped(y) == retrieve(y)

\* the retrieval main hands the year to (retrieve(y) is commented out)
MainRetrieval(y) == retrievefull(y)

\* "downloading year {y}"
StatusPrefix ==
    <<"d", "o", "w", "n", "l", "o", "a", "d", "i", "n", "g", " ",
      "y", "e", "a", "r", " ">>

StatusLine(y) == StatusPrefix \o Str(y)

(***************************************************************************)
(* Reading names back: which year and which kind of file a name stands     *)
(* for.  These are used to record what was on disk, independently of how   *)
(* the script builds its names.                                            *)
(***************************************************************************)
\* the number the first k digits of d stand for
RECURSIVE PositionalTo(_, _)
PositionalTo(d, k) ==
    IF k = 0 THEN 0 ELSE 10 * PositionalTo(d, k - 1) + DigitVal(d[k])

Positional(d) == PositionalTo(d, Len(d))

\* d is the decimal numeral of the natural number n, without leading zeros
IsNumeralOf(d, n) ==
    /\ d # <<>>
    /\ \A i \in 1..Len(d) : d[i] \in DigitChars
    /\ (Len(d) > 1 => d[1] # "0")
    /\ Positional(d) = n

\* d is the decimal string of the integer n
IsDecimalOf(d, n) ==
    IF n < 0
    THEN d # <<>> /\ d[1] = "-" /\ IsNumeralOf(Tail(d), 0 - n)
    ELSE IsNumeralOf(d, n)

\* d is the decimal string of some integer
IsDecimal(d) ==
    LET m == IF d # <<>> /\ d[1] = "-" THEN Tail(d) ELSE d
    IN  /\ m # <<>>
        /\ \A i \in 1..Len(m) : m[i] \in DigitChars
        /\ (Len(m) > 1 => m[1] # "0")
        /\ (m = <<"0">> => m = d)

\* name is prefix, the decimal string of n, suffix
IsNameOf(name, prefix, suffix, n) ==
    /\ Len(name) > Len(prefix) + Len(suffix)
    /\ SubSeq(name, 1, Len(prefix)) = prefix
    /\ SubSeq(name, Len(name) - Len(suffix) + 1, Len(name)) = suffix
    /\ IsDecimalOf(SubSeq(name, Len(prefix) + 1, Len(name) - Len(suffix)), n)

\* name is discharge_<n>_full.nc.zip
IsFullNameOf(name, n) == IsNameOf(name, FilePrefix, FullSuffix, n)

\* name is discharge_<n>.nc.zip
IsCroppedNameOf(name, n) == IsNameOf(name, FilePrefix, CroppedSuffix, n)

\* name is discharge_<n>.nc.zip for some integer n
IsCroppedName(name) ==
    /\ Len(name) > Len(FilePrefix) + Len(CroppedSuffix)
    /\ SubSeq(name, 1, Len(FilePrefix)) = FilePrefix
    /\ SubSeq(name, Len(name) - Len(CroppedSuffix) + 1, Len(name)) =
          CroppedSuffix
    /\ IsDecimal(SubSeq(name, Len(FilePrefix) + 1,
                         Len(name) - Len(CroppedSuffix)))

\* name is discharge_<n>_full.nc.zip for some integer n
IsFullName(name) ==
    /\ Len(name) > Len(FilePrefix) + Len(FullSuffix)
    /\ SubSeq(name, 1, Len(FilePrefix)) = FilePrefix
    /\ SubSeq(name, Len(name) - Len(FullSuffix) + 1, Len(name)) = FullSuffix
    /\ IsDecimal(SubSeq(name, Len(FilePrefix) + 1,
                         Len(name) - Len(FullSuffix)))

(***************************************************************************)
(* Inputs: command lines and the files found in the working directory.     *)
(***************************************************************************)
Script == "download_discharge_data_cli.py"

\* the texts given as the year argument
Args ==
    { <<"7">>, <<"0", "7">>, <<"-", "1">>, <<"2", "0", "1", "9">>,
      <<"a", "b", "c">>, <<>>, <<"1", ".", "5">> }

\* sys.argv: the script alone, or the script and one argument
Argvs == {<<Script>>} \cup {<<Script, a>> : a \in Args}

\* names that may be in the working directory before the first run, whole
\* or cut short
InitNames == {FullFilename(7), CroppedFilename(7)}

Content == {"partial", "complete"}

VARIABLES
    files,      \* the working directory: name -> [content, born]; born is
                \* the number of runs started when the file first existed
    inflight,   \* requests the client is serving: [proc, target, phase]
    runs,       \* number of runs started so far
    pc,         \* where each process is in the script
    run,        \* the number of the run in each process slot (1 = first)
    argv,       \* sys.argv of the run
    parsed,     \* whether int(sys.argv[1]) has returned in this run
    y,          \* the year main parsed
    stdout,     \* the lines the run has printed
    invoked,    \* the retrieval functions the run has entered, in order
    calls,      \* the c.retrieve calls the run has made, in order
    outcome,    \* of the run's c.retrieve call: "none" while there is
                \* none, then "pending", then "returned" or "raised"
    error,      \* the uncaught exception that ended the run, or "none"
    existed     \* whether discharge_<y>_full.nc.zip was on disk when the
                \* run tested for its file: "unknown" before, "yes" or "no"

vars ==
    <<files, inflight, runs, pc, run, argv, parsed, y, stdout, invoked,
      calls, outcome, error, existed>>

Names == DOMAIN files

\* the exit status the interpreter gives a run that has ended
ExitStatus(p) == IF error[p] = "none" THEN 0 ELSE 1

Running(p) == pc[p] \notin {"idle", "exited"}

Init ==
    /\ \E S \in SUBSET InitNames :
          \E c \in [S -> Content] :
             files = [n \in S |-> [content |-> c[n], born |-> 0]]
    /\ inflight = {}
    /\ runs = 0
    /\ pc = [p \in Procs |-> "idle"]
    /\ run = [p \in Procs |-> 0]
    /\ argv = [p \in Procs |-> <<Script>>]
    /\ parsed = [p \in Procs |-> FALSE]
    /\ y = [p \in Procs |-> 0]
    /\ stdout = [p \in Procs |-> <<>>]
    /\ invoked = [p \in Procs |-> <<>>]
    /\ calls = [p \in Procs |-> <<>>]
    /\ outcome = [p \in Procs |-> "none"]
    /\ error = [p \in Procs |-> "none"]
    /\ existed = [p \in Procs |-> "unknown"]

(***************************************************************************)
(* One run of the script.                                                  *)
(***************************************************************************)
\* a handler around c.retrieve that tries the call again
HandlerRetry(stage) == IF stage = "blocked" THEN "call" ELSE "exited"

\* a handler around c.retrieve that drops the exception
HandlerSwallow(stage) == IF stage = "blocked" THEN "return" ELSE "exited"

\* where control goes when an exception is raised at a stage of the run:
\* no statement of the script is inside a try, so the run ends
Handler(stage) == "exited"

\* an exception is raised at the stage the process is in
Raise(p, exc) ==
    /\ pc' = [pc EXCEPT ![p] = Handler(pc[p])]
    /\ error' = [error EXCEPT ![p] =
                    IF Handler(pc[p]) = "exited" THEN exc ELSE @]

\* the script is started in a free process slot (the lowest one: the slots
\* are interchangeable) and runs up to the call of main(): the imports and
\* c = cdsapi.Client(), which builds the client from the user's
\* configuration or raises when there is none
Start(p, a) ==
    /\ ~Running(p)
    /\ \A q \in Procs : q < p => Running(q)
    /\ runs < MaxRuns
    /\ runs' = runs + 1
    /\ run' = [run EXCEPT ![p] = runs + 1]
    /\ argv' = [argv EXCEPT ![p] = a]
    /\ parsed' = [parsed EXCEPT ![p] = FALSE]
    /\ y' = [y EXCEPT ![p] = 0]
    /\ stdout' = [stdout EXCEPT ![p] = <<>>]
    /\ invoked' = [invoked EXCEPT ![p] = <<>>]
    /\ calls' = [calls EXCEPT ![p] = <<>>]
    /\ outcome' = [outcome EXCEPT ![p] = "none"]
    /\ existed' = [existed EXCEPT ![p] = "unknown"]
    /\ \/ /\ pc' = [pc EXCEPT ![p] = "main"]
          /\ error' = [error EXCEPT ![p] = "none"]
       \/ /\ pc' = [pc EXCEPT ![p] = "exited"]
          /\ error' = [error EXCEPT ![p] = "Exception: cdsapi.Client()"]
    /\ UNCHANGED <<files, inflight>>

\* y = int(sys.argv[1])
MainParse(p) ==
    /\ pc[p] = "main"
    /\ IF Len(argv[p]) < 2
       THEN Raise(p, "IndexError") /\ UNCHANGED <<parsed, y>>
       ELSE LET r == ParseInt(argv[p][2])
            IN  IF r.ok
                THEN /\ pc' = [pc EXCEPT ![p] = "print"]
                     /\ parsed' = [parsed EXCEPT ![p] = TRUE]
                     /\ y' = [y EXCEPT ![p] = r.val]
                     /\ UNCHANGED error
                ELSE Raise(p, "ValueError") /\ UNCHANGED <<parsed, y>>
    /\ UNCHANGED <<files, inflight, runs, run, argv, stdout, invoked, calls,
                   outcome, existed>>

\* print(f"downloading year {y}")
MainPrint(p) ==
    /\ pc[p] = "print"
    /\ stdout' = [stdout EXCEPT ![p] = Append(@, StatusLine(y[p]))]
    /\ pc' = [pc EXCEPT ![p] = "retrieval"]
    /\ UNCHANGED <<files, inflight, runs, run, argv, parsed, y, invoked,
                   calls, outcome, error, existed>>

\* retrievefull(y) is entered: the file name is built and tested
RetrieveCheck(p) ==
    /\ pc[p] = "retrieval"
    /\ LET r == MainRetrieval(y[p])
       IN  /\ invoked' = [invoked EXCEPT ![p] = Append(@, r.fn)]
           /\ pc' = [pc EXCEPT ![p] =
                        IF ~exists(r.filename, files) THEN "call" ELSE "return"]
    /\ existed' = [existed EXCEPT ![p] =
                      IF \E n \in Names : IsFullNameOf(n, y[p])
                      THEN "yes" ELSE "no"]
    /\ UNCHANGED <<files, inflight, runs, run, argv, parsed, y, stdout,
                   calls, outcome, error>>

\* a call that does not wait for the client
AfterRetrieveCallNoWait == "return"

\* where the process is once it has called c.retrieve: waiting for it
AfterRetrieveCall == "blocked"

\* c.retrieve('efas-historical', {...}, filename) is called
ClientRetrieve(p) ==
    /\ pc[p] = "call"
    /\ LET r == MainRetrieval(y[p])
           c == [dataset |-> r.dataset, request |-> r.request,
                 target |-> r.target]
       IN  /\ calls' = [calls EXCEPT ![p] = Append(@, c)]
           /\ inflight' = inflight \cup
                  {[proc |-> p, target |-> r.target, phase |-> "queued"]}
    /\ pc' = [pc EXCEPT ![p] = AfterRetrieveCall]
    /\ outcome' = [outcome EXCEPT ![p] = "pending"]
    /\ UNCHANGED <<files, runs, run, argv, parsed, y, stdout, invoked,
                   error, existed>>

\* the client starts writing the result: the target is created or truncated
ClientDownload(p) ==
    /\ pc[p] = "blocked"
    /\ \E f \in inflight :
          /\ f.proc = p
          /\ f.phase = "queued"
          /\ inflight' = (inflight \ {f}) \cup {[f EXCEPT !.phase = "writing"]}
          /\ files' = [n \in Names \cup {f.target} |->
                          IF n # f.target THEN files[n]
                          ELSE [content |-> "partial",
                                born |-> IF n \in Names THEN files[n].born
                                         ELSE runs]]
    /\ UNCHANGED <<runs, pc, run, argv, parsed, y, stdout, invoked, calls,
                   outcome, error, existed>>

\* c.retrieve returns: the result is on disk
ClientReturn(p) ==
    /\ pc[p] = "blocked"
    /\ \E f \in inflight :
          /\ f.proc = p
          /\ f.phase = "writing"
          /\ inflight' = inflight \ {f}
          /\ files' = [files EXCEPT ![f.target].content =
                          IF \E g \in inflight \ {f} :
                                g.target = f.target /\ g.phase = "writing"
                          THEN "partial" ELSE "complete"]
    /\ pc' = [pc EXCEPT ![p] = "return"]
    /\ outcome' = [outcome EXCEPT ![p] = "returned"]
    /\ UNCHANGED <<runs, run, argv, parsed, y, stdout, invoked, calls,
                   error, existed>>

\* c.retrieve raises, before or while it writes; what it wrote stays
ClientRaise(p) ==
    /\ pc[p] = "blocked"
    /\ \E f \in inflight :
          /\ f.proc = p
          /\ inflight' = inflight \ {f}
    /\ Raise(p, "Exception: c.retrieve()")
    /\ outcome' = [outcome EXCEPT ![p] = "raised"]
    /\ UNCHANGED <<files, runs, run, argv, parsed, y, stdout, invoked,
                   calls, existed>>

\* retrievefull and main return and the interpreter exits
MainReturn(p) ==
    /\ pc[p] = "return"
    /\ pc' = [pc EXCEPT ![p] = "exited"]
    /\ UNCHANGED <<files, inflight, runs, run, argv, parsed, y, stdout,
                   invoked, calls, outcome, error, existed>>

Step(p) ==
    \/ MainParse(p)
    \/ MainPrint(p)
    \/ RetrieveCheck(p)
    \/ ClientRetrieve(p)
    \/ ClientDownload(p)
    \/ ClientReturn(p)
    \/ ClientRaise(p)
    \/ MainReturn(p)

Next ==
    \/ \E p \in Procs, a \in Argvs : Start(p, a)
    \/ \E p \in Procs : MainParse(p)
    \/ \E p \in Procs : MainPrint(p)
    \/ \E p \in Procs : RetrieveCheck(p)
    \/ \E p \in Procs : ClientRetrieve(p)
    \/ \E p \in Procs : ClientDownload(p)
    \/ \E p \in Procs : ClientReturn(p)
    \/ \E p \in Procs : ClientRaise(p)
    \/ \E p \in Procs : MainReturn(p)

Spec == Init /\ [][Next]_vars

\* a started run keeps running, and the client's call comes to an end
FairSpec == Spec /\ \A p \in Procs : WF_vars(Step(p))

(***************************************************************************)
(* Properties.                                                             *)
(***************************************************************************)
\* years over which the file names are compared with each other
MaxYear == 12

Years == ((0 - MaxYear)..MaxYear) \cup {2019}

Started(p) == pc[p] # "idle"

MyInflight(p) == {f \in inflight : f.proc = p}

\* the run has tested for its file
Checked(p) == existed[p] # "unknown"

\* C1: if discharge_<Y>_full.nc.zip is on disk when retrievefull(Y) tests
\* for it, the run makes no call of the client's retrieve and retrievefull
\* returns normally: the run goes on to return and ends without an error.
C1_SkipWhenFileExists ==
    \A p \in Procs :
        existed[p] = "yes" =>
            /\ calls[p] = <<>>
            /\ outcome[p] = "none"
            /\ MyInflight(p) = {}
            /\ pc[p] \in {"return", "exited"}
            /\ error[p] = "none"

C1_Witness ==
    \E p \in Procs :
        /\ existed[p] = "yes"
        /\ pc[p] = "exited"
        /\ invoked[p] = <<"retrievefull">>

\* C2: if discharge_<Y>_full.nc.zip is not on disk when retrievefull(Y)
\* tests for it, the run makes exactly one call of the client's retrieve
\* (none yet only while it stands before the call), with the dataset
\* 'efas-historical' and the destination discharge_<Y>_full.nc.zip.
C2_OneCallWhenFileMissing ==
    \A p \in Procs :
        existed[p] = "no" =>
            /\ Len(calls[p]) = IF pc[p] = "call" THEN 0 ELSE 1
            /\ \A i \in 1..Len(calls[p]) :
                  /\ calls[p][i].dataset = "efas-historical"
                  /\ IsFullNameOf(calls[p][i].target, y[p])

C2_Witness ==
    \E p \in Procs :
        /\ existed[p] = "no"
        /\ pc[p] = "exited"
        /\ outcome[p] = "returned"
        /\ Len(calls[p]) = 1

\* a label of two digits that reads as n
IsLabelOf(l, n) == l = <<Digits[(n \div 10) + 1], Digits[(n % 10) + 1]>>

\* a label hh:mm that reads as hour h, minute m
IsTimeOf(l, h, m) ==
    l = <<Digits[(h \div 10) + 1], Digits[(h % 10) + 1], ":",
          Digits[(m \div 10) + 1], Digits[(m % 10) + 1]>>

\* C3: the request retrievefull(Y) passes has hyear equal to the decimal
\* string of Y, hmonth the 12 labels '01'..'12', hday the 31 labels
\* '01'..'31' and time the 4 labels '00:00', '06:00', '12:00', '18:00',
\* whatever the year is.
C3_RequestSelectors ==
    \A p \in Procs :
        \A i \in 1..Len(calls[p]) :
            LET req == calls[p][i].request
            IN  /\ IsDecimalOf(req.hyear, y[p])
                /\ Len(req.hmonth) = 12
                /\ \A m \in 1..12 : IsLabelOf(req.hmonth[m], m)
                /\ Len(req.hday) = 31
                /\ \A d \in 1..31 : IsLabelOf(req.hday[d], d)
                /\ Len(req.time) = 4
                /\ \A t \in 1..4 : IsTimeOf(req.time[t], 6 * (t - 1), 0)

C3_Witness ==
    \E p, q \in Procs :
        /\ Len(calls[p]) = 1
        /\ Len(calls[q]) = 1
        /\ y[p] = 2019
        /\ y[q] < 0
        /\ calls[p][1].request.hday = calls[q][1].request.hday

C5_RaisePropagatesNoRetry ==
    \A p \in Procs :
        /\ Len(calls[p]) <= 1
        /\ outcome[p] = "raised" =>
              /\ pc[p] = "exited"
              /\ error[p] = "Exception: c.retrieve()"
              /\ ExitStatus(p) # 0
              /\ Len(calls[p]) = 1
              /\ MyInflight(p) = {}

C5_Witness ==
    \E p \in Procs :
        /\ outcome[p] = "raised"
        /\ pc[p] = "exited"
        /\ invoked[p] = <<"retrievefull">>

\* a text that is no number: it has no digit, or a character that is
\* neither a digit, a sign, an underscore nor white space
NonNumeric(a) ==
    \/ \A i \in 1..Len(a) : a[i] \notin DigitChars
    \/ \E i \in 1..Len(a) :
          a[i] \notin DigitChars \cup {"+", "-", "_"} \cup Whitespace

\* C6: a run with a non-numeric argument never gets past the parse: it
\* enters neither retrievefull nor retrieve, makes no call of the client,
\* and ends with a non-zero status, by the parse error when main was
\* reached.
C6_NonNumericArgumentFails ==
    \A p \in Procs :
        (Started(p) /\ Len(argv[p]) >= 2 /\ NonNumeric(argv[p][2])) =>
            /\ ~parsed[p]
            /\ pc[p] \in {"main", "exited"}
            /\ invoked[p] = <<>>
            /\ calls[p] = <<>>
            /\ MyInflight(p) = {}
            /\ pc[p] = "exited" =>
                  /\ ExitStatus(p) # 0
                  /\ error[p] \in {"ValueError", "Exception: cdsapi.Client()"}

C6_Witness ==
    \E p \in Procs :
        /\ argv[p] = <<Script, <<"a", "b", "c">> >>
        /\ pc[p] = "exited"
        /\ error[p] = "ValueError"

\* the line ends with the decimal string of n, set off from what is
\* before it
EndsWithDecimalOf(line, n) ==
    \E i \in 2..Len(line) :
        /\ line[i - 1] \notin DigitChars \cup {"-"}
        /\ line[i] \in DigitChars \cup {"-"}
        /\ IsDecimalOf(SubSeq(line, i, Len(line)), n)

\* C7: a run that parsed the year Y has printed a line containing Y before
\* it enters a retrieval function or calls the client; the only retrieval
\* function it enters is retrievefull, and no call carries an area selector
\* or the destination discharge_<Y>.nc.zip.
C7_PrintThenFullPathOnly ==
    \A p \in Procs :
        /\ (pc[p] \in {"retrieval", "call", "blocked", "return"}
              \/ invoked[p] # <<>> \/ calls[p] # <<>>) =>
              /\ parsed[p]
              /\ Len(stdout[p]) = 1
              /\ EndsWithDecimalOf(stdout[p][1], y[p])
        /\ invoked[p] \in {<<>>, <<"retrievefull">>}
        /\ (pc[p] \in {"call", "blocked", "return"} \/ outcome[p] # "none"
              \/ existed[p] # "unknown") => invoked[p] = <<"retrievefull">>
        /\ \A i \in 1..Len(calls[p]) :
              /\ "area" \notin DOMAIN calls[p][i].request
              /\ ~IsCroppedName(calls[p][i].target)

C7_Witness ==
    \E p \in Procs :
        /\ y[p] = 2019
        /\ pc[p] = "exited"
        /\ invoked[p] = <<"retrievefull">>
        /\ Len(calls[p]) = 1
        /\ Len(stdout[p]) = 1

\* C8: every run ends, given that the client's call returns or raises; it
\* ends with status 0 exactly when the argument was parsed as an integer
\* and either the file was on disk at the test or the call returned, and
\* with a non-zero status otherwise.
C8_TerminationAndExitStatus ==
    /\ \A p \in Procs : Running(p) ~> (pc[p] = "exited")
    /\ [](\A p \in Procs :
            pc[p] = "exited" =>
                /\ ExitStatus(p) \in {0, 1}
                /\ ExitStatus(p) = 0 <=>
                      (parsed[p] /\
                         (existed[p] = "yes" \/ outcome[p] = "returned")))

C8_Witness ==
    \E p, q \in Procs :
        /\ pc[p] = "exited"
        /\ pc[q] = "exited"
        /\ ExitStatus(p) = 0
        /\ outcome[p] = "returned"
        /\ ExitStatus(q) = 1
        /\ parsed[q]

\* the name the script gives the file of a year in a mode
Filename(yr, mode) ==
    IF mode = "full" THEN FullFilename(yr) ELSE CroppedFilename(yr)

\* different (year, mode) pairs have different file names: there are as
\* many names as pairs (a fact about the naming alone, the same in every
\* state)
FilenameInjective ==
    LET pairs == Years \X {"full", "cropped"}
    IN  Cardinality({Filename(k[1], k[2]) : k \in pairs}) = Cardinality(pairs)

\* C9: a run for year Y skips the call exactly when
\* discharge_<Y>_full.nc.zip was on disk at its test, whatever other files
\* are there; the file name is an injective function of (year, mode); and a
\* run for Y calls the client with no destination but
\* discharge_<Y>_full.nc.zip.
C9_SkipDependsOnOwnFileOnly ==
    /\ runs = 0 => FilenameInjective
    /\ \A p \in Procs :
          /\ Checked(p) =>
                (existed[p] = "yes" <=>
                    (calls[p] = <<>> /\ pc[p] \in {"return", "exited"}))
          /\ calls[p] # <<>> => existed[p] = "no"
          /\ \A i \in 1..Len(calls[p]) :
                /\ IsFullNameOf(calls[p][i].target, y[p])
                /\ ~IsCroppedName(calls[p][i].target)

\* a run for year 7 called the client although the cropped file of year 7
\* and the full file of another year were on disk before it started
C9_Witness ==
    \E p \in Procs :
        /\ y[p] = 7
        /\ existed[p] = "no"
        /\ Len(calls[p]) = 1
        /\ \E n \in DOMAIN files :
              IsCroppedNameOf(n, 7) /\ files[n].born < run[p]
        /\ \E n \in DOMAIN files :
              /\ IsFullName(n)
              /\ ~IsFullNameOf(n, 7)
              /\ files[n].born < run[p]

\* C10: a process has at most one request in flight, and waits while it
\* has one; nothing keeps two processes that both found the file missing
\* from having a request each in flight for the same destination.
C10_OneInFlightPerProcess ==
    \A p \in Procs :
        /\ Cardinality(MyInflight(p)) <= 1
        /\ MyInflight(p) # {} => (pc[p] = "blocked" /\ outcome[p] = "pending")
        /\ pc[p] = "blocked" => Cardinality(MyInflight(p)) = 1

\* two processes for the same year both passed the test and both have a
\* request in flight for the same destination
C10_Witness ==
    \E p, q \in Procs :
        /\ p # q
        /\ y[p] = y[q]
        /\ existed[p] = "no"
        /\ existed[q] = "no"
        /\ \E f, g \in inflight :
              /\ f.proc = p
              /\ g.proc = q
              /\ f.target = g.target
              /\ IsFullNameOf(f.target, y[p])

====
